---- MODULE Spec2Model ----
(***************************************************************************)
(* Order reconciliation of src/main.py: the /submit-text and /place-order  *)
(* handlers decide, per account, between modify_order on an existing open  *)
(* order and place_order of a new one.  The broker (the dhanhq client) is  *)
(* the environment: it keeps one order book per account, moves orders      *)
(* through their statuses, and each of its calls may succeed, return an    *)
(* error result or raise.  A handler has no await between its broker       *)
(* calls, so one handler runs at a time; it is cut into steps at its       *)
(* broker calls, where the broker's books can change under it.             *)
(*                                                                         *)
(* Exit monitoring of src/manage_positions.py: /manage adds one            *)
(* monitor_position task per request; a task computes its target and stop  *)
(* levels once, polls kite.ltp and places one market order when a level is *)
(* crossed.  The tasks share no state with each other or with main.py.     *)
(***************************************************************************)
EXTENDS Integers, Sequences, FiniteSets, TLC

\* ------------------------------------------------------------------ bounds
\* Orders the broker accepts over a run, both accounts together.
MaxOrders == 2
\* Security ids of the catalog are 1..MaxSec.
MaxSec == 2

\* --------------------------------------------------------------- constants
\* The two accounts: 1 is the client dhan, 2 is the client dhan2.
Accounts == {1, 2}
\* SECURITY_ID_1 = None, SECURITY_ID_2 = None
None == 0
SecIds == 1..MaxSec

\* The statuses the handlers treat as open.
OpenStatuses == {"OPEN", "TRANSIT", "PARTIALLY_FILLED", "PENDING"}
\* Statuses of the broker outside that list.
TerminalStatuses == {"FILLED", "CANCELLED", "REJECTED"}

VARIABLES
    clientInit,   \* clientInit[a]: dhanhq(...) for account a returns rather than raises
    SECURITY_ID,  \* the globals SECURITY_ID_1, SECURITY_ID_2
    orders,       \* orders[a]: the broker's order book of account a, in list order
    nextOrderId,  \* the next order id the broker hands out
    pc,           \* position of the running handler: idle, list, act, done
    endpoint,     \* the handler that runs: submit, place, none
    input,        \* what the parser and the catalog lookup give for the request's text
    cur,          \* the account whose block the handler is in
    all_orders,   \* all_orders_N: the list the handler fetched in the block it is in
    brokerOut,    \* how the broker calls of that block ended
    args,         \* order_id of its modify_order, security_id of its place_order
    calls,        \* calls[a]: broker calls issued on account a's client by this request
    results,      \* results[a]: the slot results["account<a>"] of the response
    response,     \* what the handler returns
    jobs,         \* manage_positions.py: the monitor_position tasks /manage has added
    kite_orders,  \* the kite.place_order calls of those tasks, in call order
    manage_response, \* what the last /manage request returned
    close,        \* main.py: the last /close-position request, its call and response
    cancel_all,   \* main.py: the running or last /cancel-all-orders request
    sell          \* manage_positions2.py: the last /sell request, its calls and response

vars == <<clientInit, SECURITY_ID, orders, nextOrderId, pc, endpoint,
          input, cur, all_orders, brokerOut, calls, args, results, response,
          jobs, kite_orders, manage_response, close, cancel_all, sell>>

request == <<endpoint, input, cur, all_orders, brokerOut, calls, args, results, response>>

\* The state of main.py, which manage_positions.py never touches.
reconcile == <<clientInit, SECURITY_ID, orders, nextOrderId, pc, request>>

\* The state of manage_positions.py, which main.py never touches.
monitor == <<jobs, kite_orders, manage_response>>

\* The locals of the handlers that are not part of order reconciliation.
handlers == <<close, cancel_all, sell>>

\* ----------------------------------------------------------------- helpers
RECURSIVE SelectSeqOf(_, _, _)
\* The list comprehension [o for o in s if o.securityId == sec and o.orderStatus in statuses]
SelectSeqOf(s, sec, statuses) ==
    IF s = <<>> THEN <<>>
    ELSE LET o == Head(s)
             rest == SelectSeqOf(Tail(s), sec, statuses)
         IN IF o.securityId = sec /\ o.orderStatus \in statuses
            THEN <<o>> \o rest
            ELSE rest

\* Mutant: the status test is lost, every order of the security counts as open.
open_orders_any_status(list, sec) ==
    SelectSeqOf(list, sec, OpenStatuses \cup TerminalStatuses)

\* Mutant: TRANSIT, the status of a just placed order, is missing from the list.
open_orders_without_transit(list, sec) ==
    SelectSeqOf(list, sec, OpenStatuses \ {"TRANSIT"})

\* Mutant: the security test is lost, every open order counts as a match.
open_orders_any_security(list, sec) ==
    SelectSeq(list, LAMBDA o : o.orderStatus \in OpenStatuses)

\* open_orders_for_security_N
open_orders_for_security(list, sec) == SelectSeqOf(list, sec, OpenStatuses)

RECURSIVE pending_orders(_)
\* pending_orders_N = [o for o in all_orders_N if o.orderStatus == "PENDING"]
pending_orders(s) ==
    IF s = <<>> THEN <<>>
    ELSE IF Head(s).orderStatus = "PENDING"
         THEN <<Head(s)>> \o pending_orders(Tail(s))
         ELSE pending_orders(Tail(s))

\* Mutant: the last open match is picked, open_orders_for_security_N[-1].
order_to_modify_last(open) == open[Len(open)]

\* order_to_modify_N = open_orders_for_security_N[0]
order_to_modify(open) == open[1]

\* if not dhan or not dhan2: both clients are None as soon as one constructor raised
ClientsInitialized == \A a \in Accounts : clientInit[a]

\* parseSignal's and search_options_in_db's outcomes for a text: the parser's
\* output is not JSON; or it is, and the lookup fails, finds no exact match, or
\* finds the row whose first column is sec.  Buy1 is the price the parsed
\* instruction names, in hundredths, None when it names none.
NoInput == [parse |-> "none", db |-> "none", sec |-> None, Buy1 |-> None]
Inputs ==
    {[parse |-> "invalid", db |-> "none", sec |-> None, Buy1 |-> None]}
    \cup {[parse |-> "json", db |-> d, sec |-> None, Buy1 |-> None] :
              d \in {"error", "notfound"}}
    \cup {[parse |-> "json", db |-> "found", sec |-> s, Buy1 |-> None] : s \in SecIds}

\* The buy prices of the instructions that name one, in hundredths.
BuyPrices == {10, 25, 15000}
\* Texts that parse, resolve to a security and name a buy price.
Instructions ==
    {[parse |-> "json", db |-> "found", sec |-> s, Buy1 |-> b] :
        s \in SecIds, b \in BuyPrices}

NoCalls == [list |-> 0, place |-> 0, modify |-> 0]
\* Prices are in hundredths: 10 is the 0.1 of place_order, 20 the 0.2 of modify_order.
NoArgs == [order_id |-> 0, security_id |-> None,
           transaction_type |-> "none", quantity |-> 0, price |-> 0]
NoOut == [list |-> "none", act |-> "none"]

\* /close-position before its first request: no request, no call, no response.
NoCloseRequest ==
    [account |-> 0, securityId |-> None, netQty |-> 0, orderType |-> "none", price |-> 0]
NoClose ==
    [request |-> NoCloseRequest, calls |-> [a \in Accounts |-> <<>>], response |-> "none"]

\* /cancel-all-orders while no request runs: results = {"accountN": {"canceled": [],
\* "errors": []}}, and no call made.
NoCancelAll ==
    [pc |-> "idle", cur |-> 1, to_cancel |-> <<>>,
     all_orders |-> [a \in Accounts |-> <<>>],
     list_calls |-> [a \in Accounts |-> 0],
     cancel_calls |-> [a \in Accounts |-> <<>>],
     canceled |-> [a \in Accounts |-> <<>>],
     errors |-> [a \in Accounts |-> <<>>],
     response |-> "none"]

\* /sell before its first request.
NoSellRequest ==
    [quantity |-> 0, quote |-> "none", last_price |-> 0,
     instruments |-> "none", expiry |-> "none", expiry_date |-> 0]
NoSell ==
    [request |-> NoSellRequest,
     calls |-> [ltp |-> 0, instruments |-> 0, place |-> <<>>],
     response |-> "none"]

RequestInit ==
    /\ endpoint = "none"
    /\ input = NoInput
    /\ cur = 1
    /\ all_orders = <<>>
    /\ brokerOut = NoOut
    /\ args = NoArgs
    /\ calls = [a \in Accounts |-> NoCalls]
    /\ results = [a \in Accounts |-> "None"]
    /\ response = "none"

Init ==
    /\ clientInit \in [Accounts -> BOOLEAN]
    /\ SECURITY_ID = [a \in Accounts |-> None]
    /\ orders = [a \in Accounts |-> <<>>]
    /\ nextOrderId = 1
    /\ pc = "idle"
    /\ RequestInit
    /\ jobs = <<>>
    /\ kite_orders = <<>>
    /\ manage_response = "none"
    /\ close = NoClose
    /\ cancel_all = NoCancelAll
    /\ sell = NoSell

\* The handler leaves account cur's block: on to account 2, or to the return.
NextBlock ==
    IF cur = 1
    THEN /\ cur' = 2
         /\ pc' = "list"
         /\ response' = response
    ELSE /\ cur' = cur
         /\ pc' = "done"
         /\ response' = "results"

\* ----------------------------------------------------------- /submit-text
\* Mutant: the except clause swallows the error and the handler goes on.
ParseFailureSwallowed(parse) == FALSE

\* except json.JSONDecodeError: return {"error": "Failed to parse GPT response", ...}
ParseFailureReturns(parse) == parse = "invalid"

\* The decision of search_options_in_db's result: "error" raises 404, anything
\* without "data" returns the no-match message, a match sets both globals.
submit_text(in) ==
    /\ pc = "idle"
    /\ endpoint' = "submit"
    /\ input' = in
    /\ UNCHANGED <<clientInit, orders, nextOrderId, cur, all_orders,
                   brokerOut, calls, args, results, monitor, handlers>>
    /\ IF ~ClientsInitialized
       THEN /\ response' = "http500"
            /\ pc' = "done"
            /\ UNCHANGED SECURITY_ID
       ELSE IF ParseFailureReturns(in.parse)
       THEN /\ response' = "parse_error"
            /\ pc' = "done"
            /\ UNCHANGED SECURITY_ID
       ELSE IF in.db = "error"
       THEN /\ response' = "http404"
            /\ pc' = "done"
            /\ UNCHANGED SECURITY_ID
       ELSE IF in.db = "notfound"
       THEN /\ response' = "no_match"
            /\ pc' = "done"
            /\ UNCHANGED SECURITY_ID
       ELSE /\ SECURITY_ID' = [a \in Accounts |-> in.sec]
            /\ response' = "none"
            /\ pc' = "list"

\* ----------------------------------------------------------- /place-order
place_order ==
    /\ pc = "idle"
    /\ endpoint' = "place"
    /\ input' = NoInput
    /\ UNCHANGED <<clientInit, SECURITY_ID, orders, nextOrderId, cur,
                   all_orders, brokerOut, calls, args, results, monitor, handlers>>
    /\ IF ~ClientsInitialized
       THEN /\ response' = "http500"
            /\ pc' = "done"
       ELSE /\ response' = "none"
            /\ pc' = "list"

\* ------------------------------------------- the per-account block, step 1
\* .get("data", []) of the response: the broker's list, or nothing when the
\* response carries no data (an error result).
ResponseData(out, book) == IF out = "ok" THEN book ELSE <<>>

\* Mutant: the last PENDING order is taken, pending_orders_N[-1].
RetargetToLastPending(ep, list, sec) ==
    IF ep = "place" /\ pending_orders(list) # <<>>
    THEN pending_orders(list)[Len(pending_orders(list))].securityId
    ELSE sec

\* /place-order only: if pending_orders_N: SECURITY_ID_N = pending_orders_N[0].securityId
Retarget(ep, list, sec) ==
    IF ep = "place" /\ pending_orders(list) # <<>>
    THEN pending_orders(list)[1].securityId
    ELSE sec

\* existing_orders_response_N = dhanN.get_order_list(), out being how the call ends:
\* "ok", "nodata" (an error result) or "raise".
dhan_get_order_list(out) ==
    /\ pc = "list"
    /\ calls' = [calls EXCEPT ![cur].list = @ + 1]
    /\ brokerOut' = [list |-> out, act |-> "none"]
    /\ args' = NoArgs
    /\ UNCHANGED <<clientInit, orders, nextOrderId, endpoint, input, monitor, handlers>>
    /\ IF out = "raise"
       THEN /\ results' = [results EXCEPT ![cur] = "error"]
            /\ all_orders' = <<>>
            /\ UNCHANGED SECURITY_ID
            /\ NextBlock
       ELSE /\ all_orders' = ResponseData(out, orders[cur])
            /\ SECURITY_ID' = [SECURITY_ID EXCEPT
                   ![cur] = Retarget(endpoint, all_orders', @)]
            /\ pc' = "act"
            /\ UNCHANGED <<cur, results, response>>

\* ------------------------------------------- the per-account block, step 2
\* Mutant: the decision reads the broker's book as it is when the call is made.
ListRefetchedAtAct == orders[cur]

\* The list the place-or-modify decision reads: the one fetched in step 1.
ListSeenByDecision == all_orders

\* Mutant: a failed call is made a second time.
AttemptsWithRetry(out) == IF out = "ok" THEN 1 ELSE 2

\* Calls one act issues: the call is made once, whatever it returns.
Attempts(out) == 1

\* results["accountN"] after the call: the except clause stores an error, every
\* returned value (an error result too) is stored under the success message.
ResultOf(kind, out) == IF out = "raise" THEN "error" ELSE kind

\* dhanN.modify_order(order_id=..., quantity=75, price=0.2, ...): the order's
\* quantity and price are not part of the book kept here.
dhan_modify_order(out) ==
    /\ pc = "act"
    /\ LET open == open_orders_for_security(ListSeenByDecision, SECURITY_ID[cur])
       IN /\ open # <<>>
          /\ args' = [args EXCEPT !.order_id = order_to_modify(open).orderId,
                                  !.quantity = 75,
                                  !.price = 20]
    /\ calls' = [calls EXCEPT ![cur].modify = @ + Attempts(out)]
    /\ brokerOut' = [brokerOut EXCEPT !.act = out]
    /\ results' = [results EXCEPT ![cur] = ResultOf("Modified", out)]
    /\ NextBlock
    /\ UNCHANGED <<clientInit, SECURITY_ID, orders, nextOrderId,
                   endpoint, input, all_orders, monitor, handlers>>

\* The order the broker books for an accepted place_order.
NewOrder(id, sec) == [orderId |-> id, securityId |-> sec, orderStatus |-> "TRANSIT"]

\* dhanN.place_order(security_id=SECURITY_ID_N, transaction_type=BUY, quantity=75, price=0.1, ...)
\* The broker accepts an order ("ok") only for a security id, and MaxOrders times
\* over a run; "error" is an error result and "raise" an exception, no order booked.
dhan_place_order(out) ==
    /\ pc = "act"
    /\ open_orders_for_security(ListSeenByDecision, SECURITY_ID[cur]) = <<>>
    /\ out = "ok" => SECURITY_ID[cur] # None /\ nextOrderId <= MaxOrders
    /\ args' = [args EXCEPT !.security_id = SECURITY_ID[cur],
                            !.transaction_type = "BUY",
                            !.quantity = 75,
                            !.price = 10]
    /\ calls' = [calls EXCEPT ![cur].place = @ + Attempts(out)]
    /\ brokerOut' = [brokerOut EXCEPT !.act = out]
    /\ results' = [results EXCEPT ![cur] = ResultOf("Placed", out)]
    /\ IF out = "ok"
       THEN /\ orders' = [orders EXCEPT
                   ![cur] = Append(@, NewOrder(nextOrderId, SECURITY_ID[cur]))]
            /\ nextOrderId' = nextOrderId + 1
       ELSE UNCHANGED <<orders, nextOrderId>>
    /\ NextBlock
    /\ UNCHANGED <<clientInit, SECURITY_ID, endpoint, input, all_orders, monitor, handlers>>

\* return results / return {...} / raise HTTPException: the handler's locals are gone.
Return ==
    /\ pc = "done"
    /\ pc' = "idle"
    /\ endpoint' = "none"
    /\ input' = NoInput
    /\ cur' = 1
    /\ all_orders' = <<>>
    /\ brokerOut' = NoOut
    /\ args' = NoArgs
    /\ calls' = [a \in Accounts |-> NoCalls]
    /\ results' = [a \in Accounts |-> "None"]
    /\ response' = "none"
    /\ UNCHANGED <<clientInit, SECURITY_ID, orders, nextOrderId, monitor, handlers>>

\* ------------------------------------------------------------- the broker
\* The statuses an order can move to next at the broker: one status of each
\* kind the handlers tell apart, open and not PENDING, PENDING, and not open.
Successors(st) ==
    CASE st = "TRANSIT" -> {"PENDING"}
      [] st = "PENDING" -> {"FILLED"}
      [] OTHER -> {}

\* The handler reads an order book only in its list call, so a status change at
\* the broker during a request is the same to it as one just before or just
\* after the request: statuses move while no handler runs.
BrokerTransition(a, i, st) ==
    /\ pc = "idle"
    /\ i \in 1..Len(orders[a])
    /\ st \in Successors(orders[a][i].orderStatus)
    /\ orders' = [orders EXCEPT ![a][i].orderStatus = st]
    /\ UNCHANGED <<clientInit, SECURITY_ID, nextOrderId, pc, request, monitor, handlers>>

\* Another process places an order on the same account: before a request, or
\* between a handler's list call and its place or modify call.
OtherProcessPlaces(a, sec) ==
    /\ pc \in {"idle", "act"}
    /\ nextOrderId <= MaxOrders
    /\ orders' = [orders EXCEPT ![a] = Append(@, NewOrder(nextOrderId, sec))]
    /\ nextOrderId' = nextOrderId + 1
    /\ UNCHANGED <<clientInit, SECURITY_ID, pc, request, monitor, handlers>>

\* ------------------------------------------------------- the specification
NextCore ==
    \/ \E in \in Inputs : submit_text(in)
    \/ place_order
    \/ \E out \in {"ok", "nodata", "raise"} : dhan_get_order_list(out)
    \/ \E out \in {"ok", "error", "raise"} : dhan_modify_order(out)
    \/ \E out \in {"ok", "error", "raise"} : dhan_place_order(out)
    \/ Return
    \/ \E a \in Accounts, i \in 1..MaxOrders, st \in OpenStatuses \cup TerminalStatuses :
          BrokerTransition(a, i, st)

Next ==
    \/ NextCore
    \/ \E a \in Accounts, sec \in SecIds : OtherProcessPlaces(a, sec)

\* The handlers, the broker and other processes placing orders on the accounts.
Spec == Init /\ [][Next]_vars

\* The handlers and the broker alone: no other process places an order.
SpecCore == Init /\ [][NextCore]_vars

\* /submit-text alone, for instructions that name a security and a buy price.
NextInstruction ==
    \/ \E in \in Instructions : submit_text(in)
    \/ \E out \in {"ok", "nodata", "raise"} : dhan_get_order_list(out)
    \/ \E out \in {"ok", "error", "raise"} : dhan_modify_order(out)
    \/ \E out \in {"ok", "error", "raise"} : dhan_place_order(out)
    \/ Return
    \/ \E a \in Accounts, i \in 1..MaxOrders, st \in OpenStatuses \cup TerminalStatuses :
          BrokerTransition(a, i, st)

SpecInstruction == Init /\ [][NextInstruction]_vars

\* One /submit-text request against books as the broker can report them: up
\* to MaxOrders orders on the two accounts together, each in any status and for
\* one of two securities (a request for any other security finds books that
\* hold nothing for it), with order ids in the order of booking.
OrderKinds == {1, MaxSec} \X (OpenStatuses \cup TerminalStatuses)

BookOf(kinds, from, n) ==
    [i \in 1..n |-> [orderId |-> from + i,
                     securityId |-> kinds[from + i][1],
                     orderStatus |-> kinds[from + i][2]]]

Books ==
    {[a \in Accounts |-> IF a = 1 THEN BookOf(kinds, 0, k) ELSE BookOf(kinds, k, n - k)] :
        <<n, k, kinds>> \in
            UNION {{<<m, j, f>> : j \in 0..m, f \in [1..m -> OrderKinds]} : m \in 0..MaxOrders}}

InitFilter ==
    /\ clientInit = [a \in Accounts |-> TRUE]
    /\ SECURITY_ID = [a \in Accounts |-> None]
    /\ orders \in Books
    /\ nextOrderId = Len(orders[1]) + Len(orders[2]) + 1
    /\ pc = "idle"
    /\ RequestInit
    /\ jobs = <<>>
    /\ kite_orders = <<>>
    /\ manage_response = "none"
    /\ close = NoClose
    /\ cancel_all = NoCancelAll
    /\ sell = NoSell

NextFilter ==
    \/ \E s \in SecIds :
          submit_text([parse |-> "json", db |-> "found", sec |-> s, Buy1 |-> None])
    \/ \E out \in {"ok", "nodata", "raise"} : dhan_get_order_list(out)
    \/ \E out \in {"ok", "error", "raise"} : dhan_modify_order(out)
    \/ \E out \in {"ok", "error", "raise"} : dhan_place_order(out)

SpecFilter == InitFilter /\ [][NextFilter]_vars

\* /place-order requests, one after the other, against the same books.
NextPlace ==
    \/ place_order
    \/ \E out \in {"ok", "nodata", "raise"} : dhan_get_order_list(out)
    \/ \E out \in {"ok", "error", "raise"} : dhan_modify_order(out)
    \/ \E out \in {"ok", "error", "raise"} : dhan_place_order(out)
    \/ Return

SpecPlace == InitFilter /\ [][NextPlace]_vars

\* ------------------------------------------------ manage_positions.py
\* Prices are in hundredths: 10002 is 100.02.
\* Polls (failed reads included) one task makes in a run.
MaxPolls == 3
\* The average prices of the positions are 10000..MaxAvg.
MaxAvg == 10005

\* The 1.0 of buy_price + 1.0 and buy_price - 1.0.
Offset == 100
\* The 0.05 the levels are snapped to.
TickSize == 5
\* An average_price float() raises on.
NotANumber == -1

AvgPrices == 10000..MaxAvg
Quantities == {-75, 0, 75}
\* What kite.positions() can show for the selected position: the average
\* price is missing (read as 0), is no number, or is one of AvgPrices; the
\* instrument token is missing or there.
Positions ==
    [tradingsymbol : {"SYM"},
     instrument_token : {None, 1},
     average_price : {NotANumber, 0} \cup AvgPrices,
     quantity : Quantities]

\* The prices kite.ltp can report: on and around the levels of AvgPrices, and
\* between them.
Prices == {9895, 9900, 9905, 10000, 10040, 10090, 10100, 10105, 10110, 10115}

\* The dividends (buy_price - 1.0 and buy_price + 1.0 of the average prices
\* 100.05 and 100.10) that are whole multiples of 0.05 in decimal and whose
\* division by 0.05 in doubles ends an ulp below the whole number:
\* (100.05 - 1.0) / 0.05 = 1980.9999999999998, (100.05 + 1.0) / 0.05 = 2020.9999999999998,
\* while (100.0 - 1.0) / 0.05 = 1980.0 and (100.0 + 1.0) / 0.05 = 2020.0.
ShortDividends == {9905, 9910, 10105, 10110}

\* x / 0.05 as the double it is: the whole number below or at it, and
\* whether the double is that whole number.
Divide(x) ==
    IF x % TickSize # 0 THEN [whole |-> x \div TickSize, exact |-> FALSE]
    ELSE IF x \in ShortDividends THEN [whole |-> (x \div TickSize) - 1, exact |-> FALSE]
    ELSE [whole |-> x \div TickSize, exact |-> TRUE]

math_ceil(q) == IF q.exact THEN q.whole ELSE q.whole + 1
math_floor(q) == q.whole

\* n * 0.05 as the double it is, for the n of the levels here (1900..2100):
\* the hundredths it prints as, and excess 1 when the double lies above that
\* decimal: 2020 * 0.05 = 101.0, 2021 * 0.05 = 101.05000000000001,
\* 1981 * 0.05 = 99.05000000000001; 0 when it is the double of the decimal.
Times(n) == [hundredths |-> n * TickSize, excess |-> IF n % 5 \in {1, 2} THEN 1 ELSE 0]

\* Mutant: the target is snapped down like the stop.
target_profit_floor(buy_price) == Times(math_floor(Divide(buy_price + Offset)))

\* target_profit = math.ceil((buy_price + 1.0) / 0.05) * 0.05
target_profit_of(buy_price) == Times(math_ceil(Divide(buy_price + Offset)))

\* stop_loss = math.floor((buy_price - 1.0) / 0.05) * 0.05
stop_loss_of(buy_price) == Times(math_floor(Divide(buy_price - Offset)))

\* current_price >= level and current_price <= level, the price being the
\* double of a two-decimal number.
AtOrAbove(price, level) ==
    price > level.hundredths \/ (price = level.hundredths /\ level.excess = 0)
AtOrBelow(price, level) ==
    price <= level.hundredths

NoLevel == [hundredths |-> 0, excess |-> 0]

\* background_tasks.add_task(monitor_position, selected_position)
NewJob(position) ==
    [position |-> position, pc |-> "added",
     target_profit |-> NoLevel, stop_loss |-> NoLevel,
     current_price |-> 0, reads |-> 0, failures |-> 0]

\* POST /manage.  out is how the request goes: kite.positions() raises, the
\* index is outside the list, or it selects position.
manage(out, position) ==
    /\ IF out = "raise"
       THEN /\ manage_response' = "http500"
            /\ UNCHANGED jobs
       ELSE IF out = "invalid_index"
       THEN /\ manage_response' = "Invalid position index selected."
            /\ UNCHANGED jobs
       ELSE /\ jobs' = Append(jobs, NewJob(position))
            /\ manage_response' = "Started monitoring position"
    /\ UNCHANGED <<kite_orders, reconcile, handlers>>

\* monitor_position up to its loop: the checks of the position and the levels.
monitor_position(j) ==
    /\ j \in 1..Len(jobs)
    /\ jobs[j].pc = "added"
    /\ LET buy_price == jobs[j].position.average_price
           instrument_token == jobs[j].position.instrument_token
       IN IF buy_price = NotANumber
          THEN jobs' = [jobs EXCEPT ![j].pc = "returned"]
          ELSE IF buy_price = 0 \/ instrument_token = None
          THEN jobs' = [jobs EXCEPT ![j].pc = "returned"]
          ELSE jobs' = [jobs EXCEPT ![j].pc = "poll",
                                    ![j].target_profit = target_profit_of(buy_price),
                                    ![j].stop_loss = stop_loss_of(buy_price)]
    /\ UNCHANGED <<kite_orders, manage_response, reconcile, handlers>>

\* place_sell_order(tradingsymbol, quantity): the kite.place_order call and
\* how it ended; an exception is printed and swallowed.
place_sell_order(j, tradingsymbol, quantity, result) ==
    [job |-> j, tradingsymbol |-> tradingsymbol, transaction_type |-> "SELL",
     quantity |-> quantity, result |-> result]

\* Mutant: the loop has no break after place_sell_order.
AfterSellKeepsPolling == "poll"

\* break: the loop, and with it the task, ends after place_sell_order.
AfterSell == "returned"

\* Mutant: a failed read ends the task.
AfterFailedReadReturns == "returned"

\* except Exception: time.sleep(1); continue
AfterFailedRead == "poll"

\* Mutant: every read snaps the levels anew, around the price read.
AfterReadRecomputes(job, price) ==
    [job EXCEPT !.current_price = price,
                !.reads = @ + 1,
                !.target_profit = target_profit_of(price),
                !.stop_loss = stop_loss_of(price)]

\* current_price = ltp_data[...]["last_price"]: the task's locals after a
\* read; target_profit and stop_loss are not assigned in the loop.
AfterRead(job, price) ==
    [job EXCEPT !.current_price = price,
                !.reads = @ + 1]

\* One turn of the while loop.  out is how kite.ltp ends ("ok" with price, or
\* "raise"), result how kite.place_order ends if the turn calls it.
monitor_poll(j, out, price, result) ==
    /\ j \in 1..Len(jobs)
    /\ jobs[j].pc = "poll"
    /\ jobs[j].reads + jobs[j].failures < MaxPolls
    /\ IF out = "raise"
       THEN /\ jobs' = [jobs EXCEPT ![j].failures = @ + 1,
                                    ![j].pc = AfterFailedRead]
            /\ UNCHANGED kite_orders
       ELSE IF \/ AtOrAbove(price, jobs[j].target_profit)
               \/ AtOrBelow(price, jobs[j].stop_loss)
       THEN /\ kite_orders' = Append(kite_orders,
                   place_sell_order(j, jobs[j].position.tradingsymbol,
                                    jobs[j].position.quantity, result))
            /\ jobs' = [jobs EXCEPT ![j] = [AfterRead(@, price) EXCEPT !.pc = AfterSell]]
       ELSE /\ jobs' = [jobs EXCEPT ![j] = AfterRead(@, price)]
            /\ UNCHANGED kite_orders
    /\ UNCHANGED <<manage_response, reconcile, handlers>>

\* One /manage request and the task it adds: the tasks have only locals, so
\* what one task does is the same whatever other tasks run.
NextMonitor ==
    \/ \E out \in {"ok", "invalid_index", "raise"}, position \in Positions :
          jobs = <<>> /\ manage(out, position)
    \/ \E j \in 1..Len(jobs) : monitor_position(j)
    \/ \E j \in 1..Len(jobs), out \in {"ok", "raise"}, price \in Prices,
          result \in {"ok", "raise"} : monitor_poll(j, out, price, result)

SpecMonitor == Init /\ [][NextMonitor]_vars

\* A turn of task j's loop whose read succeeds with a price at or beyond one
\* of the task's levels.
CrossingTurn(j) ==
    \E price \in Prices, result \in {"ok", "raise"} :
        /\ j \in 1..Len(jobs)
        /\ jobs[j].pc = "poll"
        /\ \/ AtOrAbove(price, jobs[j].target_profit)
           \/ AtOrBelow(price, jobs[j].stop_loss)
        /\ monitor_poll(j, "ok", price, result)

\* The task's thread keeps being scheduled (a threadpool thread that sleeps
\* one second between turns), and the market assumption of the termination
\* property: while the task polls, a read that succeeds with a price at or
\* beyond a level eventually comes.
SpecMonitorFair == SpecMonitor /\ WF_vars(CrossingTurn(1))

\* Several /manage requests for one open position and the tasks they add,
\* in every interleaving of the tasks' steps.
\* Tasks /manage adds in a run.
MaxJobs == 2

\* The open position the requests select: bought at 100.00, 75 held.
OpenPosition ==
    [tradingsymbol |-> "SYM", instrument_token |-> 1,
     average_price |-> 10000, quantity |-> 75]

NextStarts ==
    \/ \E out \in {"ok", "invalid_index", "raise"} :
          Len(jobs) < MaxJobs /\ manage(out, OpenPosition)
    \/ \E j \in 1..Len(jobs) : monitor_position(j)
    \/ \E j \in 1..Len(jobs), out \in {"ok", "raise"}, price \in {10000, 10100},
          result \in {"ok", "raise"} : monitor_poll(j, out, price, result)

SpecStarts == Init /\ [][NextStarts]_vars

\* -------------------------------------------------------- /close-position
\* The requests: account numbers in and out of {1, 2}, a net quantity of
\* either sign or 0, the order type in either case, a limit price.
CloseRequests ==
    [account : 0..3,
     securityId : SecIds,
     netQty : {-75, 0, 75},
     orderType : {"MARKET", "market", "LIMIT"},
     price : {0, 10}]

\* req.orderType.upper()
Upper(orderType) == IF orderType = "market" THEN "MARKET" ELSE orderType

\* Mutant: the close order is a SELL whatever the sign.
transaction_type_always_sell(netQty) == "SELL"

\* transaction_type = current_dhan.SELL if req.netQty > 0 else current_dhan.BUY
transaction_type_of(netQty) == IF netQty > 0 THEN "SELL" ELSE "BUY"

\* qty_abs = abs(req.netQty)
abs(n) == IF n < 0 THEN -n ELSE n

\* Mutant: the account number is not checked, any other number means dhan2.
AccountInvalidNever(account) == FALSE

\* else: raise HTTPException(status_code=400, ...)
AccountInvalid(account) == account # 1 /\ account # 2

\* current_dhan = dhan if req.account == 1, dhan2 otherwise
current_dhan(account) == IF account = 1 THEN 1 ELSE 2

\* The place_order call of a request that passed the checks.
CloseCall(req) ==
    [security_id |-> req.securityId,
     transaction_type |-> transaction_type_of(req.netQty),
     quantity |-> abs(req.netQty),
     order_type |-> IF Upper(req.orderType) = "MARKET" THEN "MARKET" ELSE "LIMIT",
     price |-> IF Upper(req.orderType) = "MARKET" THEN 0 ELSE req.price]

\* Mutant: a net quantity of 0 is not refused.
NothingToCloseNever(netQty) == FALSE

\* if req.netQty == 0: raise ValueError("netQty=0, nothing to close")
NothingToClose(netQty) == netQty = 0

\* POST /close-position; out is how place_order ends if the handler calls it.
\* The handler has no await: it runs while no other handler of main.py does.
\* An order the broker books for it comes to the reconcile handlers as one
\* that OtherProcessPlaces puts on the book; the book is not changed here.
close_position(req, out) ==
    /\ pc = "idle"
    /\ cancel_all.pc = "idle"
    /\ IF ~ClientsInitialized
       THEN close' = [request |-> req, calls |-> NoClose.calls, response |-> "http500"]
       ELSE IF AccountInvalid(req.account)
       THEN close' = [request |-> req, calls |-> NoClose.calls, response |-> "http400"]
       ELSE IF NothingToClose(req.netQty)
       THEN close' = [request |-> req, calls |-> NoClose.calls, response |-> "http500"]
       ELSE close' = [request |-> req,
                      calls |-> [NoClose.calls EXCEPT
                                    ![current_dhan(req.account)] = <<CloseCall(req)>>],
                      response |-> IF out = "raise" THEN "http500" ELSE "placed"]
    /\ UNCHANGED <<reconcile, monitor, cancel_all, sell>>

NextClose ==
    \E req \in CloseRequests, out \in {"ok", "error", "raise"} : close_position(req, out)

SpecClose == Init /\ [][NextClose]_vars

\* ------------------------------------------------ main.py, /cancel-all-orders
\* The books a request can find: up to MaxOrders orders on the two accounts
\* together, each in any status, with or without an order id in the broker's
\* entry (o.get("orderId") is None for an entry without one).
CancelKinds == BOOLEAN \X (OpenStatuses \cup TerminalStatuses)

CancelBookOf(kinds, from, n) ==
    [i \in 1..n |-> [orderId |-> IF kinds[from + i][1] THEN from + i ELSE None,
                     securityId |-> 1,
                     orderStatus |-> kinds[from + i][2]]]

CancelBooks ==
    {[a \in Accounts |-> IF a = 1 THEN CancelBookOf(kinds, 0, k)
                                  ELSE CancelBookOf(kinds, k, n - k)] :
        <<n, k, kinds>> \in
            UNION {{<<m, j, f>> : j \in 0..m, f \in [1..m -> CancelKinds]} : m \in 0..MaxOrders}}

InitCancel ==
    /\ clientInit \in [Accounts -> BOOLEAN]
    /\ SECURITY_ID = [a \in Accounts |-> None]
    /\ orders \in CancelBooks
    /\ nextOrderId = Len(orders[1]) + Len(orders[2]) + 1
    /\ pc = "idle"
    /\ RequestInit
    /\ jobs = <<>>
    /\ kite_orders = <<>>
    /\ manage_response = "none"
    /\ close = NoClose
    /\ cancel_all = NoCancelAll
    /\ sell = NoSell

\* Mutant: the status test is lost, every fetched order is to be cancelled.
open_orders_all(list) == list

\* open_orders_N = [o for o in all_orders_N if o.get("orderStatus") in [...]]
open_orders(list) == SelectSeq(list, LAMBDA o : o.orderStatus \in OpenStatuses)

\* POST /cancel-all-orders up to the first broker call.
cancel_all_orders ==
    /\ pc = "idle"
    /\ cancel_all.pc = "idle"
    /\ cancel_all' =
         IF ~ClientsInitialized
         THEN [NoCancelAll EXCEPT !.pc = "done", !.response = "http500"]
         ELSE [NoCancelAll EXCEPT !.pc = "list"]
    /\ UNCHANGED <<reconcile, monitor, close, sell>>

\* The handler leaves account cur's block: on to account 2, or to the return.
NextAccount(c) ==
    IF c.cur = 1
    THEN [c EXCEPT !.cur = 2, !.pc = "list", !.to_cancel = <<>>]
    ELSE [c EXCEPT !.pc = "done", !.to_cancel = <<>>, !.response = "results"]

\* response_N = dhanN.get_order_list() and the filter; out is how the call
\* ends.  The outer except clause records a call that raises.
cancel_get_order_list(out) ==
    /\ cancel_all.pc = "list"
    /\ LET a == cancel_all.cur
           called == [cancel_all EXCEPT !.list_calls[a] = @ + 1]
       IN IF out = "raise"
          THEN cancel_all' = NextAccount([called EXCEPT !.errors[a] = Append(@, "fetch")])
          ELSE LET fetched == ResponseData(out, orders[a])
                   listed == [called EXCEPT !.all_orders[a] = fetched,
                                            !.to_cancel = open_orders(fetched)]
               IN cancel_all' = IF listed.to_cancel = <<>>
                                THEN NextAccount(listed)
                                ELSE [listed EXCEPT !.pc = "loop"]
    /\ UNCHANGED <<reconcile, monitor, close, sell>>

\* The status of an order the broker has cancelled.
Cancelled(book, id) ==
    [i \in 1..Len(book) |->
        IF book[i].orderId = id THEN [book[i] EXCEPT !.orderStatus = "CANCELLED"]
        ELSE book[i]]

\* One turn of the for loop: if order_id: dhanN.cancel_order(order_id=order_id);
\* out is how the call ends: "ok", "error" (an error result is returned) or
\* "raise".  Every returned value is appended to canceled, the inner except
\* clause appends a raised exception to errors.
cancel_order(out) ==
    /\ cancel_all.pc = "loop"
    /\ LET a == cancel_all.cur
           order_id == Head(cancel_all.to_cancel).orderId
           rest == [cancel_all EXCEPT !.to_cancel = Tail(@)]
           turned ==
               IF order_id = None
               THEN rest
               ELSE IF out = "raise"
               THEN [rest EXCEPT !.cancel_calls[a] = Append(@, [order_id |-> order_id, out |-> out]),
                                 !.errors[a] = Append(@, "cancel")]
               ELSE [rest EXCEPT !.cancel_calls[a] = Append(@, [order_id |-> order_id, out |-> out]),
                                 !.canceled[a] = Append(@, [orderId |-> order_id, response |-> out])]
       IN /\ cancel_all' = IF turned.to_cancel = <<>> THEN NextAccount(turned) ELSE turned
          /\ orders' = IF order_id # None /\ out = "ok"
                       THEN [orders EXCEPT ![a] = Cancelled(@, order_id)]
                       ELSE orders
    /\ UNCHANGED <<clientInit, SECURITY_ID, nextOrderId, pc, request, monitor, close, sell>>

\* return results / raise HTTPException: the handler's locals are gone.
cancel_return ==
    /\ cancel_all.pc = "done"
    /\ cancel_all' = NoCancelAll
    /\ UNCHANGED <<reconcile, monitor, close, sell>>

NextCancel ==
    \/ cancel_all_orders
    \/ \E out \in {"ok", "nodata", "raise"} : cancel_get_order_list(out)
    \/ \E out \in {"ok", "error", "raise"} : cancel_order(out)
    \/ cancel_return

SpecCancel == InitCancel /\ [][NextCancel]_vars

\* ------------------------------------------- manage_positions2.py, /sell
\* A request and what the broker has for its symbol: the quantity asked
\* for; kite.ltp raises, or returns a quote without or with the instrument,
\* whose last_price (0 when the key is missing) is in hundredths;
\* kite.instruments raises, or returns a list without or with the symbol,
\* whose expiry is empty, a string strptime cannot parse, or a date,
\* expiry_date, in days from today.
SellRequests ==
    [quantity : {-75, 0, 75},
     quote : {"raise", "absent", "present"},
     last_price : {-5, 0, 10000},
     instruments : {"raise", "nomatch", "match"},
     expiry : {"none", "malformed", "date"},
     expiry_date : {-1, 0, 1}]

\* Mutant: the expiry date is not compared with today.
ExpiredNever(expiry_date) == FALSE

\* if expiry_date < datetime.today().date()
Expired(expiry_date) == expiry_date < 0

\* Mutant: the last price is not checked.
PriceInvalidNever(last_price) == FALSE

\* if market_data.get("last_price", 0) <= 0
PriceInvalid(last_price) == last_price <= 0

\* kite.place_order(..., tradingsymbol=symbol, transaction_type=SELL, quantity=quantity, ...)
SellCall(req) == [transaction_type |-> "SELL", quantity |-> req.quantity]

\* GET /sell; out is how kite.place_order ends if the handler calls it.
sell_order(req, out) ==
    /\ sell' =
         IF req.quote = "raise"
         THEN [request |-> req,
               calls |-> [ltp |-> 1, instruments |-> 0, place |-> <<>>],
               response |-> "http500"]
         ELSE IF req.quote = "absent"
         THEN [request |-> req,
               calls |-> [ltp |-> 1, instruments |-> 0, place |-> <<>>],
               response |-> "http404"]
         ELSE IF PriceInvalid(req.last_price)
         THEN [request |-> req,
               calls |-> [ltp |-> 1, instruments |-> 0, place |-> <<>>],
               response |-> "http400"]
         ELSE IF req.instruments = "raise"
         THEN [request |-> req,
               calls |-> [ltp |-> 1, instruments |-> 1, place |-> <<>>],
               response |-> "http500"]
         ELSE IF req.instruments = "nomatch"
         THEN [request |-> req,
               calls |-> [ltp |-> 1, instruments |-> 1, place |-> <<>>],
               response |-> "http404"]
         ELSE IF req.expiry = "malformed"
         THEN [request |-> req,
               calls |-> [ltp |-> 1, instruments |-> 1, place |-> <<>>],
               response |-> "http500"]
         ELSE IF req.expiry = "date" /\ Expired(req.expiry_date)
         THEN [request |-> req,
               calls |-> [ltp |-> 1, instruments |-> 1, place |-> <<>>],
               response |-> "http400"]
         ELSE [request |-> req,
               calls |-> [ltp |-> 1, instruments |-> 1, place |-> <<SellCall(req)>>],
               response |-> IF out = "raise" THEN "http500" ELSE "placed"]
    /\ UNCHANGED <<reconcile, monitor, close, cancel_all>>

NextSell ==
    \E req \in SellRequests, out \in {"ok", "raise"} : sell_order(req, out)

SpecSell == Init /\ [][NextSell]_vars

\* ------------------------------------------------------------------ claims
\* An order that matches the security and is in an open status.
IsOpenMatch(o, sec) ==
    /\ o.securityId = sec
    /\ o.orderStatus \in {"OPEN", "TRANSIT", "PARTIALLY_FILLED", "PENDING"}

\* The places of a list that hold an open order for the security.
OpenMatches(list, sec) == {i \in 1..Len(list) : IsOpenMatch(list[i], sec)}

FirstOf(S) == CHOOSE i \in S : \A j \in S : i <= j

\* Account a's block of the running handler has ended and its locals are the
\* ones in the state: block 1 once the handler stands before block 2's list call,
\* block 2 once the handler stands at its return.
BlockEnded(a) ==
    \/ a = 1 /\ pc = "list" /\ cur = 2
    \/ a = 2 /\ pc = "done" /\ response = "results"

\* The block's list call returned a response (with or without data).
ListReturned == brokerOut.list \in {"ok", "nodata"}

\* C1: for every account whose fetched order list holds no open order for the
\* target security, the per-account block of /submit-text issues exactly one
\* place_order call and no modify_order call on that account's client.
C1_PlaceWhenNoOpenMatch ==
    \A a \in Accounts :
        (/\ endpoint = "submit"
         /\ BlockEnded(a)
         /\ ListReturned
         /\ OpenMatches(all_orders, SECURITY_ID[a]) = {})
        => calls[a].place = 1 /\ calls[a].modify = 0

\* C1's case: a fetched list that holds orders, none of them an open order for
\* the target, and the place_order call issued.
C1_Witness ==
    /\ endpoint = "submit"
    /\ BlockEnded(2)
    /\ brokerOut.list = "ok"
    /\ \E i \in 1..Len(all_orders) : all_orders[i].securityId = SECURITY_ID[2]
    /\ \E i \in 1..Len(all_orders) : all_orders[i].orderStatus = "PENDING"
    /\ OpenMatches(all_orders, SECURITY_ID[2]) = {}
    /\ calls[2].place = 1

\* C2: for every account whose fetched order list holds at least one open
\* order for the target security, one reconcile issues exactly one modify_order
\* call, on the order id of the first such order in list order, and no
\* place_order call.
C2_ModifyFirstOpenMatch ==
    \A a \in Accounts :
        (/\ BlockEnded(a)
         /\ ListReturned
         /\ OpenMatches(all_orders, SECURITY_ID[a]) # {})
        => /\ calls[a].modify = 1
           /\ calls[a].place = 0
           /\ args.order_id =
                  all_orders[FirstOf(OpenMatches(all_orders, SECURITY_ID[a]))].orderId

\* C2's case: two open orders for the target in the fetched list, and the
\* modify_order call issued and accepted.
C2_Witness ==
    \E a \in Accounts :
        /\ BlockEnded(a)
        /\ Cardinality(OpenMatches(all_orders, SECURITY_ID[a])) >= 2
        /\ calls[a].modify = 1
        /\ brokerOut.act = "ok"

\* C3: with no other process placing orders, a reconcile that runs on an
\* account after an earlier reconcile placed an order for the same security,
\* and whose fetched list shows that order as open, issues one modify_order
\* and no place_order: the book gets no second order from it.
C3_SecondCallModifies ==
    [][(/\ pc = "act"
        /\ brokerOut.list = "ok"
        /\ \E i \in 1..Len(orders[cur]) : IsOpenMatch(orders[cur][i], SECURITY_ID[cur]))
       => /\ calls'[cur].modify = 1
          /\ calls'[cur].place = 0
          /\ orders' = orders]_vars

\* C3's case: the account's only order is the one an earlier /submit-text
\* placed, the second /submit-text for that security has fetched it as open
\* and has modified it.
C3_Witness ==
    \E a \in Accounts :
        /\ endpoint = "submit"
        /\ BlockEnded(a)
        /\ brokerOut = [list |-> "ok", act |-> "ok"]
        /\ Len(orders[a]) = 1
        /\ all_orders = orders[a]
        /\ IsOpenMatch(orders[a][1], SECURITY_ID[a])
        /\ calls[a].modify = 1
        /\ calls[a].place = 0
        /\ args.order_id = orders[a][1].orderId

\* The open orders an account's book holds for a security.
OpenOrdersFor(a, sec) == OpenMatches(orders[a], sec)

\* C4: with no order placed by any other process, each (account, securityId)
\* pair has at most one order in an open status in every reachable state.
C4_AtMostOneOpenOrder ==
    \A a \in Accounts, sec \in SecIds : Cardinality(OpenOrdersFor(a, sec)) <= 1

\* C5: the list call and the act call of a reconcile are not atomic: when
\* another process has placed an open order for the same account and security
\* after the list was fetched, the act still issues place_order, and when the
\* broker accepts it the account holds two open orders for that security.
C5_RaceStillPlaces ==
    [][(/\ pc = "act"
        /\ pc' # "act"
        /\ brokerOut.list = "ok"
        /\ OpenMatches(all_orders, SECURITY_ID[cur]) = {}
        /\ OpenOrdersFor(cur, SECURITY_ID[cur]) # {})
       => /\ calls'[cur].place = 1
          /\ calls'[cur].modify = 0
          /\ brokerOut'.act = "ok" =>
                 Cardinality(OpenMatches(orders'[cur], SECURITY_ID[cur])) >= 2]_vars

\* C5's case: a faithful list without an open order for the target, the
\* place_order accepted, and two open orders for the target in the book.
C5_Witness ==
    \E a \in Accounts :
        /\ BlockEnded(a)
        /\ brokerOut = [list |-> "ok", act |-> "ok"]
        /\ OpenMatches(all_orders, SECURITY_ID[a]) = {}
        /\ calls[a].place = 1
        /\ Cardinality(OpenOrdersFor(a, SECURITY_ID[a])) >= 2

\* The request is one that calls for reconciliation: /place-order, or a
\* /submit-text whose text parses and resolves to a security.
ReconcileDue ==
    \/ endpoint = "place"
    \/ endpoint = "submit" /\ input.parse = "json" /\ input.db = "found"

\* C6: one account's failure never blocks another's reconciliation: when a
\* request that calls for reconciliation has ended, every account whose own
\* client was constructed has had its block run and its result reported,
\* whatever happened to the other account's client or broker calls.
C6_FailureIsolated ==
    (pc = "done" /\ ReconcileDue)
    => \A a \in Accounts : clientInit[a] => calls[a].list = 1 /\ results[a] # "None"

\* A broker call of the block failed: it returned an error result or raised.
CallFailed == brokerOut.list \in {"nodata", "raise"} \/ brokerOut.act \in {"error", "raise"}

\* C7: whenever a list, place or modify call of a reconcile fails, that
\* account's result is a failure, never Placed or Modified.
C7_FailureReported ==
    \A a \in Accounts : (BlockEnded(a) /\ CallFailed) => results[a] = "error"

\* C8: within one request the place_order and modify_order calls on one
\* account are at most one in total, also when that call fails.
C8_NoRetry ==
    \A a \in Accounts : calls[a].place + calls[a].modify <= 1

\* C8's case: the place or modify call of a block failed and the block ended.
C8_Witness ==
    \E a \in Accounts :
        /\ BlockEnded(a)
        /\ brokerOut.act \in {"error", "raise"}
        /\ calls[a].place + calls[a].modify = 1

\* C9: no place_order or modify_order call is issued with an unresolved
\* (None) security id, by /submit-text or by /place-order.
C9_ResolvedSecurityId ==
    \A a \in Accounts :
        /\ (BlockEnded(a) /\ calls[a].place >= 1) => args.security_id # None
        /\ (BlockEnded(a) /\ calls[a].modify >= 1) => SECURITY_ID[a] # None

\* C10: when the parser's output is not valid JSON, /submit-text issues no
\* list, place or modify call on any account, fills no result slot, places no
\* order, and returns an error.
C10_NoCallsOnParseFailure ==
    (endpoint = "submit" /\ input.parse = "invalid")
    => /\ \A a \in Accounts : calls[a] = NoCalls /\ results[a] = "None"
       /\ pc = "done"
       /\ response \in {"parse_error", "http500"}

\* C10's case: both clients are up, the account holds an open order, the text
\* does not parse and the handler stands at its return of the parse error.
C10_Witness ==
    /\ endpoint = "submit"
    /\ input.parse = "invalid"
    /\ ClientsInitialized
    /\ response = "parse_error"
    /\ \E a \in Accounts : orders[a] # <<>>

\* The security id the place or modify call of the block that ended was issued
\* for: security_id of place_order, else the security of the order modified.
ActedSecurityId(a) ==
    IF calls[a].place >= 1 THEN args.security_id ELSE SECURITY_ID[a]

\* C11: the security id a reconcile acts on is the one the instruction of the
\* invoking request resolves to, whatever earlier requests did and whatever
\* orders are pending at the broker: every place or modify call of a request
\* is issued for the security id of that request's own input.
C11_ActsOnOwnInstruction ==
    \A a \in Accounts :
        (BlockEnded(a) /\ calls[a].place + calls[a].modify >= 1)
        => ActedSecurityId(a) = input.sec

\* C12: when the fetched list holds no open order for the target, the
\* place_order call of the block carries the fields of the instruction: the
\* security id the instruction resolves to and the buy price it names (the
\* parsed instruction has no side and no quantity to compare with).
C12_PlaceCarriesInstruction ==
    \A a \in Accounts :
        (/\ endpoint = "submit"
         /\ BlockEnded(a)
         /\ ListReturned
         /\ OpenMatches(all_orders, SECURITY_ID[a]) = {}
         /\ calls[a].place = 1)
        => /\ args.security_id = input.sec
           /\ args.price = input.Buy1

\* The task has passed the checks of its position and has its two levels.
LevelsComputed(j) == jobs[j].pc \in {"poll", "returned"} /\ jobs[j].target_profit # NoLevel

\* The levels of task j to the hundredth, as the task prints them.
LevelsOf(j) == <<jobs[j].target_profit.hundredths, jobs[j].stop_loss.hundredths>>

\* C13 as stated: with offset 1.0 and tick 0.05, an average price of 100.00
\* gives target 101.00 and stop 99.00, and an average price of 100.02 gives
\* target 101.05 and stop 98.95.
C13_LevelsAsStated ==
    \A j \in 1..Len(jobs) :
        LevelsComputed(j) =>
            /\ jobs[j].position.average_price = 10000 => LevelsOf(j) = <<10100, 9900>>
            /\ jobs[j].position.average_price = 10002 => LevelsOf(j) = <<10105, 9895>>

\* C13, amended: an average price of 100.00 gives target 101.00 and stop
\* 99.00, and an average price of 100.02 gives target 101.05 and stop 99.00,
\* the levels taken to the hundredth: floor(99.02 / 0.05) is 1980.
C13_LevelsAmended ==
    \A j \in 1..Len(jobs) :
        LevelsComputed(j) =>
            /\ jobs[j].position.average_price = 10000 => LevelsOf(j) = <<10100, 9900>>
            /\ jobs[j].position.average_price = 10002 => LevelsOf(j) = <<10105, 9900>>

\* C13's case: a task for a position bought at 100.02 has computed its levels.
C13_Witness ==
    \E j \in 1..Len(jobs) :
        /\ LevelsComputed(j)
        /\ jobs[j].position.average_price = 10002
        /\ jobs[j].position.quantity = 75

\* C14: for every average price, the target is the smallest multiple of the
\* tick that is >= average price + offset, and the stop is the largest
\* multiple of the tick that is <= average price - offset (levels in
\* hundredths).
C14_LevelsAreNearestTicks ==
    \A j \in 1..Len(jobs) :
        LevelsComputed(j) =>
            LET unrounded_target == jobs[j].position.average_price + Offset
                unrounded_stop == jobs[j].position.average_price - Offset
                target == jobs[j].target_profit.hundredths
                stop == jobs[j].stop_loss.hundredths
            IN /\ target % TickSize = 0
               /\ target >= unrounded_target
               /\ target - TickSize < unrounded_target
               /\ stop % TickSize = 0
               /\ stop <= unrounded_stop
               /\ stop + TickSize > unrounded_stop

\* The kite.place_order calls task j has made.
ExitOrders(j) == {i \in 1..Len(kite_orders) : kite_orders[i].job = j}

\* The price lies strictly between the stop and the target of task j, the
\* levels being the doubles the task holds.
StrictlyBetween(price, j) ==
    /\ price < jobs[j].target_profit.hundredths + jobs[j].target_profit.excess
    /\ price > jobs[j].stop_loss.hundredths

\* Task j reads a price in this step.
ReadsPrice(j) == jobs'[j].reads = jobs[j].reads + 1

\* C15: a task submits no exit order while the prices it reads lie strictly
\* between its stop and its target; at the first read of a price at or beyond
\* a level it submits exactly one exit order; after that it polls no more and
\* submits nothing more.
C15_OneExitAtFirstCrossing ==
    [][\A j \in 1..Len(jobs) :
          /\ ReadsPrice(j) =>
                IF StrictlyBetween(jobs'[j].current_price, j)
                THEN /\ ExitOrders(j)' = {}
                     /\ jobs'[j].pc = "poll"
                ELSE /\ ExitOrders(j) = {}
                     /\ Cardinality(ExitOrders(j)') = 1
                     /\ jobs'[j].pc = "returned"
          /\ jobs[j].pc = "returned" =>
                /\ jobs'[j] = jobs[j]
                /\ ExitOrders(j)' = ExitOrders(j)
          /\ Cardinality(ExitOrders(j)') <= 1]_vars

\* C15's case: bought at 100.00, the task has read two prices between its
\* levels and then 101.00, its target, and has submitted its one order.
C15_Witness ==
    \E j \in 1..Len(jobs) :
        /\ jobs[j].position.average_price = 10000
        /\ jobs[j].position.quantity = 75
        /\ jobs[j].reads = 3
        /\ jobs[j].failures = 0
        /\ jobs[j].current_price = 10100
        /\ jobs[j].pc = "returned"
        /\ Cardinality(ExitOrders(j)) = 1

\* C16: the side of a task's exit order follows the sign of the position's
\* net quantity, SELL for a positive and BUY for a negative one, and its
\* quantity is the absolute value of the net quantity.
C16_ExitSideBySign ==
    \A i \in 1..Len(kite_orders) :
        LET order == kite_orders[i]
            net == jobs[order.job].position.quantity
        IN /\ net > 0 => order.transaction_type = "SELL" /\ order.quantity = net
           /\ net < 0 => order.transaction_type = "BUY" /\ order.quantity = -net

\* A read of task j fails in this step.
ReadFails(j) == jobs'[j].failures = jobs[j].failures + 1

\* C17: a failed price read does not end the task and submits nothing: the
\* task stands at the head of its loop again, with its levels as they were;
\* and a task that has had a failed read still submits exactly one exit
\* order and ends when it then reads a price at or beyond a level.
C17_FailedReadIsRetried ==
    [][\A j \in 1..Len(jobs) :
          /\ ReadFails(j) =>
                /\ jobs'[j].pc = "poll"
                /\ kite_orders' = kite_orders
                /\ jobs'[j].target_profit = jobs[j].target_profit
                /\ jobs'[j].stop_loss = jobs[j].stop_loss
          /\ (/\ jobs[j].failures >= 1
              /\ ReadsPrice(j)
              /\ ~StrictlyBetween(jobs'[j].current_price, j)) =>
                /\ ExitOrders(j) = {}
                /\ Cardinality(ExitOrders(j)') = 1
                /\ jobs'[j].pc = "returned"]_vars

\* C17's case: a task with one failed read and two reads, the first between
\* the levels and the last at the target, has ended with its one order accepted.
C17_Witness ==
    \E j \in 1..Len(jobs) :
        /\ jobs[j].failures = 1
        /\ jobs[j].reads = 2
        /\ jobs[j].pc = "returned"
        /\ jobs[j].current_price = jobs[j].target_profit.hundredths
        /\ Cardinality(ExitOrders(j)) = 1
        /\ \A i \in ExitOrders(j) : kite_orders[i].result = "ok"

\* The exit order of task j was submitted and kite.place_order raised.
ExitFailed(j) == \E i \in ExitOrders(j) : kite_orders[i].result = "raise"

\* The exit order of task j was submitted and accepted.
ExitAccepted(j) == \E i \in ExitOrders(j) : kite_orders[i].result = "ok"

\* The state in which a task ends whose exit order was accepted: it has
\* returned from monitor_position.
EndOfAccepted == "returned"

\* C18: a task whose exit-order submission failed has stopped, has submitted
\* that one order only, and is in a terminal state of its own: not the state
\* in which a task ends whose exit order was accepted.
C18_FailedExitIsMarked ==
    \A j \in 1..Len(jobs) :
        ExitFailed(j) =>
            /\ jobs[j].pc # "poll"
            /\ Cardinality(ExitOrders(j)) = 1
            /\ jobs[j].pc # EndOfAccepted

\* The position lacks what the levels and the polls need: its average price
\* is 0 (or missing) or it has no instrument token.
Insufficient(position) ==
    position.average_price = 0 \/ position.instrument_token = None

\* C19: for a position with average price 0 or without instrument token the
\* task makes no price poll and submits no exit order, never stands in its
\* polling loop, and the /manage request that selected it does not answer
\* that monitoring has started.
C19_InsufficientIsRejected ==
    \A j \in 1..Len(jobs) :
        Insufficient(jobs[j].position) =>
            /\ jobs[j].reads = 0
            /\ jobs[j].failures = 0
            /\ ExitOrders(j) = {}
            /\ jobs[j].pc # "poll"
            /\ j = Len(jobs) => manage_response # "Started monitoring position"

\* C20: a position whose net quantity is zero is never monitored: its task
\* makes no price poll, failed or not, and submits no exit order; no
\* kite.place_order call has quantity 0.
C20_ZeroQuantityNeverMonitored ==
    /\ \A j \in 1..Len(jobs) :
          jobs[j].position.quantity = 0 =>
              /\ jobs[j].reads = 0
              /\ jobs[j].failures = 0
              /\ ExitOrders(j) = {}
    /\ \A i \in 1..Len(kite_orders) : kite_orders[i].quantity # 0

\* The task is active: added and not yet returned.
Running(j) == jobs[j].pc \in {"added", "poll"}

\* The active tasks for the position with this instrument token.
RunningFor(token) ==
    {j \in 1..Len(jobs) : Running(j) /\ jobs[j].position.instrument_token = token}

\* C21: in every reachable state at most one task is active per position: a
\* /manage request for a position whose task is active adds no second task.
C21_AtMostOneRunning ==
    \A j \in 1..Len(jobs) :
        Cardinality(RunningFor(jobs[j].position.instrument_token)) <= 1

\* The kite.place_order calls made for a trading symbol.
ExitOrdersFor(symbol) ==
    {i \in 1..Len(kite_orders) : kite_orders[i].tradingsymbol = symbol}

\* C22: for one open position, whatever the number of /manage requests and
\* the interleaving of their tasks, at most one exit order is submitted.
C22_OneExitPerPosition ==
    \A i \in 1..Len(kite_orders) :
        Cardinality(ExitOrdersFor(kite_orders[i].tradingsymbol)) <= 1

\* C23: a running task can be cancelled: from every state in which a task
\* stands in its polling loop, some step of the program ends it in the state
\* Cancelled, with no further poll and no exit order after it.
C23_RunningCanBeCancelled ==
    \A j \in 1..Len(jobs) :
        jobs[j].pc = "poll" =>
            ENABLED (/\ NextMonitor
                     /\ jobs'[j].pc = "cancelled"
                     /\ kite_orders' = kite_orders)

\* C24: a task's target and stop are set once, when the task starts, from
\* the position's average price alone, and no later step of the task (read,
\* failed read, retry, exit order) changes them.
C24_LevelsFixed ==
    [][\A j \in 1..Len(jobs) :
          /\ LevelsComputed(j) =>
                /\ jobs'[j].target_profit = jobs[j].target_profit
                /\ jobs'[j].stop_loss = jobs[j].stop_loss
          /\ (jobs[j].pc = "added" /\ jobs'[j].pc = "poll") =>
                /\ jobs'[j].target_profit = target_profit_of(jobs[j].position.average_price)
                /\ jobs'[j].stop_loss = stop_loss_of(jobs[j].position.average_price)]_vars

\* C24's case: a task bought at 100.02 has had a failed read and two reads of
\* prices away from its average price, and still polls with the levels
\* 101.05 and 99.00.
C24_Witness ==
    \E j \in 1..Len(jobs) :
        /\ jobs[j].position.average_price = 10002
        /\ jobs[j].failures = 1
        /\ jobs[j].reads = 2
        /\ jobs[j].current_price = 10100
        /\ jobs[j].pc = "poll"
        /\ LevelsOf(j) = <<10105, 9900>>

\* The order-placing calls of the last /close-position request, all accounts.
CloseCalls(a) == close.calls[a]

\* C25: a served /close-position request (both clients constructed) for
\* account 1 or 2 with a positive net quantity issues exactly one place_order,
\* a SELL, and with a negative net quantity exactly one BUY: on the requested
\* account's client and on no other, for the requested security id, with the
\* absolute value of the net quantity.
C25_CloseSideBySign ==
    (/\ ClientsInitialized
     /\ close.request.account \in Accounts
     /\ close.request.netQty # 0)
    => /\ Len(CloseCalls(close.request.account)) = 1
       /\ \A a \in Accounts \ {close.request.account} : CloseCalls(a) = <<>>
       /\ LET call == CloseCalls(close.request.account)[1]
          IN /\ call.security_id = close.request.securityId
             /\ call.quantity > 0
             /\ call.quantity \in {close.request.netQty, -close.request.netQty}
             /\ close.request.netQty > 0 => call.transaction_type = "SELL"
             /\ close.request.netQty < 0 => call.transaction_type = "BUY"

\* C25's case: a request to close a short position of 75 on account 2, and
\* its one call a BUY of 75 on dhan2.
C25_Witness ==
    /\ close.request.account = 2
    /\ close.request.netQty = -75
    /\ close.response = "placed"
    /\ CloseCalls(1) = <<>>
    /\ Len(CloseCalls(2)) = 1
    /\ CloseCalls(2)[1].transaction_type = "BUY"
    /\ CloseCalls(2)[1].quantity = 75

\* The last /close-position request was answered with an error.
CloseRefused == close.response \in {"http400", "http500"}

\* C29: /close-position issues no place_order on any account when the net
\* quantity is 0 or the account number is neither 1 nor 2, and answers with
\* an error in both cases.
C29_NothingPlacedOnBadRequest ==
    (close.request # NoCloseRequest
     /\ (close.request.netQty = 0 \/ close.request.account \notin {1, 2}))
    => /\ \A a \in Accounts : CloseCalls(a) = <<>>
       /\ CloseRefused

\* C29's case: both clients are up and the request names account 3 with a
\* net quantity of 75; it is answered 400 and nothing is placed.
C29_Witness ==
    /\ ClientsInitialized
    /\ close.request.account = 3
    /\ close.request.netQty = 75
    /\ close.response = "http400"
    /\ \A a \in Accounts : CloseCalls(a) = <<>>

\* C26: /sell places at most one order per request, and none when the
\* instrument is absent from the market quotes, when its last price is <= 0,
\* when no instrument metadata matches the symbol, or when its expiry date is
\* before today; each of these requests is answered with an error.
C26_SellOnlyAfterValidation ==
    /\ Len(sell.calls.place) <= 1
    /\ (\/ sell.request.quote = "absent"
        \/ sell.request.quote = "present" /\ sell.request.last_price <= 0
        \/ sell.request.instruments = "nomatch"
        \/ sell.request.expiry = "date" /\ sell.request.expiry_date < 0)
       => /\ sell.calls.place = <<>>
          /\ sell.response \in {"http400", "http404", "http500"}

\* C26's case: the quote is there with a price above 0 and the metadata
\* match, but the instrument expired yesterday: both lookups were made, no
\* order was placed and the answer is 400.
C26_Witness ==
    /\ sell.request.quote = "present"
    /\ sell.request.last_price > 0
    /\ sell.request.instruments = "match"
    /\ sell.request.expiry = "date"
    /\ sell.request.expiry_date = -1
    /\ sell.calls = [ltp |-> 1, instruments |-> 1, place |-> <<>>]
    /\ sell.response = "http400"

\* Task j has used up the turns the model counts.
TurnsUsed(j) == jobs[j].reads + jobs[j].failures = MaxPolls

\* C27: a task in its loop whose reads eventually succeed with a price at or
\* beyond one of its levels eventually ends (within the turns the model
\* counts; a task whose turns are used up has read no such price and has
\* submitted nothing), and a task leaves its loop only in a turn that reads
\* a price not strictly between its levels: a failed read or a price
\* strictly between them never ends it.
C27_EndsAtCrossingOnly ==
    /\ (Len(jobs) >= 1 /\ jobs[1].pc = "poll")
          ~> (/\ Len(jobs) >= 1
              /\ \/ jobs[1].pc = "returned"
                 \/ jobs[1].pc = "poll" /\ TurnsUsed(1) /\ ExitOrders(1) = {})
    /\ [][\A j \in 1..Len(jobs) :
             (jobs[j].pc = "poll" /\ jobs'[j].pc # "poll") =>
                /\ ReadsPrice(j)
                /\ ~StrictlyBetween(jobs'[j].current_price, j)]_vars

\* C27's case: a task that had a failed read, then read a price between its
\* levels, then one at or below its stop, and ended.
C27_Witness ==
    /\ Len(jobs) >= 1
    /\ jobs[1].pc = "returned"
    /\ jobs[1].failures = 1
    /\ jobs[1].reads = 2
    /\ jobs[1].current_price <= jobs[1].stop_loss.hundredths
    /\ ExitOrders(1) # {}

\* The order of the fetched list that account a's modify_order call named.
Modified(a) == {i \in 1..Len(all_orders) : all_orders[i].orderId = args.order_id}

\* C28: the per-account block of /submit-text never issues modify_order on an
\* order whose securityId differs from the target or whose status is outside
\* {OPEN, TRANSIT, PARTIALLY_FILLED, PENDING}; an account whose fetched list
\* holds orders, each of them either for the target in status FILLED,
\* CANCELLED or REJECTED or for another security, gets one place_order call
\* and no modify_order call.
C28_ModifyOnlyOpenMatch ==
    \A a \in Accounts :
        (BlockEnded(a) /\ ListReturned) =>
            /\ calls[a].modify > 0 =>
                  /\ Modified(a) # {}
                  /\ \A i \in Modified(a) :
                        /\ all_orders[i].securityId = SECURITY_ID[a]
                        /\ all_orders[i].orderStatus \in
                               {"OPEN", "TRANSIT", "PARTIALLY_FILLED", "PENDING"}
            /\ (/\ all_orders # <<>>
                /\ \A i \in 1..Len(all_orders) :
                      \/ /\ all_orders[i].securityId = SECURITY_ID[a]
                         /\ all_orders[i].orderStatus \in {"FILLED", "CANCELLED", "REJECTED"}
                      \/ all_orders[i].securityId # SECURITY_ID[a])
               => calls[a].place = 1 /\ calls[a].modify = 0

\* C28's case: the fetched list holds an open order for another security
\* ahead of a cancelled order for the target, and the block has placed.
C28_Witness ==
    \E a \in Accounts :
        /\ BlockEnded(a)
        /\ brokerOut.list = "ok"
        /\ Len(all_orders) = 2
        /\ all_orders[1].securityId # SECURITY_ID[a]
        /\ all_orders[1].orderStatus = "OPEN"
        /\ all_orders[2].securityId = SECURITY_ID[a]
        /\ all_orders[2].orderStatus = "CANCELLED"
        /\ calls[a].place = 1
        /\ calls[a].modify = 0

\* The orders of a fetched list that are in an open status and have an id.
Cancellable(list) ==
    SelectSeq(list, LAMBDA o :
        /\ o.orderStatus \in {"OPEN", "TRANSIT", "PARTIALLY_FILLED", "PENDING"}
        /\ o.orderId # None)

\* The request has gone through both accounts.
CancelAllDone == cancel_all.pc = "done" /\ cancel_all.response = "results"

\* For every account whose list call returned, the cancel_order calls are one
\* for each fetched order with an open status and an id, in list order, and no
\* other: none for an order in a terminal status, and no call is left out
\* because an earlier one failed or the other account's block failed.
CancelCallsAsListed ==
    CancelAllDone =>
        \A a \in Accounts :
            /\ cancel_all.list_calls[a] = 1
            /\ LET due == Cancellable(cancel_all.all_orders[a])
               IN /\ Len(cancel_all.cancel_calls[a]) = Len(due)
                  /\ \A i \in 1..Len(due) :
                        cancel_all.cancel_calls[a][i].order_id = due[i].orderId

\* The cancel_order calls on account a that failed.
FailedCancels(a) ==
    {i \in 1..Len(cancel_all.cancel_calls[a]) :
        cancel_all.cancel_calls[a][i].out \in {"error", "raise"}}

\* C30: /cancel-all-orders issues, per account, exactly one cancel_order call
\* for each order of the fetched list that has an open status and an order id
\* and none for any other order; a failed cancel is recorded in that
\* account's errors, not among its cancelled orders, and prevents neither the
\* remaining cancel calls nor the other account's block.
C30_CancelEachOpenOrder ==
    /\ CancelCallsAsListed
    /\ CancelAllDone =>
          \A a \in Accounts :
              \A i \in FailedCancels(a) :
                  /\ cancel_all.errors[a] # <<>>
                  /\ \A k \in 1..Len(cancel_all.canceled[a]) :
                        cancel_all.canceled[a][k].orderId #
                            cancel_all.cancel_calls[a][i].order_id

\* The places of a list that hold an order in status PENDING.
PendingPlaces(list) == {i \in 1..Len(list) : list[i].orderStatus = "PENDING"}

\* C31: when the list /place-order fetched for an account holds an order in
\* status PENDING, the account's security id is the securityId of the first
\* such order and the block issues one modify_order call, on the first open
\* order of that security in the list, and no place_order call; and an
\* account's security id changes in no other step than such a list call, so
\* it is still the re-targeted one in later requests.
C31_RetargetToFirstPending ==
    [][/\ \A a \in Accounts :
             (/\ endpoint' = "place"
              /\ BlockEnded(a)'
              /\ ListReturned'
              /\ PendingPlaces(all_orders') # {})
             => LET sec == all_orders'[FirstOf(PendingPlaces(all_orders'))].securityId
                IN /\ SECURITY_ID'[a] = sec
                   /\ calls'[a].modify = 1
                   /\ calls'[a].place = 0
                   /\ args'.order_id =
                          all_orders'[FirstOf(OpenMatches(all_orders', sec))].orderId
       /\ \A a \in Accounts :
             SECURITY_ID'[a] # SECURITY_ID[a] =>
                /\ endpoint = "place"
                /\ pc = "list"
                /\ cur = a
                /\ PendingPlaces(all_orders') # {}]_vars

\* C31's case: the list /place-order fetched holds an OPEN order of the
\* PENDING order's security ahead of the PENDING order: the account is
\* re-targeted to that security and the block has modified the OPEN order,
\* the first open order of the security.
C31_Witness ==
    \E a \in Accounts :
        /\ endpoint = "place"
        /\ BlockEnded(a)
        /\ brokerOut.list = "ok"
        /\ Len(all_orders) = 2
        /\ all_orders[1].orderStatus = "OPEN"
        /\ all_orders[2].orderStatus = "PENDING"
        /\ all_orders[1].securityId = all_orders[2].securityId
        /\ SECURITY_ID[a] = all_orders[2].securityId
        /\ calls[a].modify = 1
        /\ args.order_id = all_orders[1].orderId

====
